---- MODULE Spec2Model ----
(***************************************************************************)
(* Model of examples/conformer_energies/conformer_energies.ipynb:          *)
(*   cell 2  collates the single-conformer molecules read from an SDF      *)
(*           file into multi-conformer molecules;                          *)
(*   cell 4  loops over the collated molecules, minimizes every conformer  *)
(*           with one OpenMM Simulation per molecule, writes one SDF file  *)
(*           per minimized conformer and one CSV report per molecule.      *)
(*                                                                         *)
(* Python objects live in a heap (object id -> fields) so that in-place    *)
(* mutation and aliasing are visible.  Strings are sequences of            *)
(* one-character strings, so that joining, path building and number        *)
(* formatting are computed and not assumed.  Energies and RMS values are   *)
(* integers in units of 1e-4 (kcal/mol, Angstrom).                         *)
(***************************************************************************)
EXTENDS Integers, Sequences, FiniteSets, TLC

VARIABLES loaded_molecules, heap, molecules, idx, n_molecules, n_conformers,
          pc, err, mi, mol_copy, simulation, conf_iter, conformer_index,
          conformer, orig_potential, min_potential, min_coords,
          minimization_rms, output, files, writes, calls

vars == <<loaded_molecules, heap, molecules, idx, n_molecules, n_conformers,
          pc, err, mi, mol_copy, simulation, conf_iter, conformer_index,
          conformer, orig_potential, min_potential, min_coords,
          minimization_rms, output, files, writes, calls>>

(* ---------------------------- bounds ----------------------------------- *)

\* Largest number of records in the SDF file.
MaxRecords == 3

(* ------------------------ input universe ------------------------------- *)

\* Chemical graphs an SDF record can describe.
Graphs == {"A", "B"}

\* Names an SDF record can declare; the empty string is "no name".
DeclaredNames == {<<>>, <<"m">>}

\* Coordinates of the conformer stored in the i-th SDF record.
OrigGeom(i) == <<"orig", i>>

\* Value of a variable that holds no geometry yet.
NoGeom == <<"none", 0>>

(* --------------------------- strings ----------------------------------- *)

DigitChars == <<"0", "1", "2", "3", "4", "5", "6", "7", "8", "9">>

\* str(n) for a natural number n.
RECURSIVE Str(_)
Str(n) == IF n < 10 THEN <<DigitChars[n + 1]>>
          ELSE Str(n \div 10) \o <<DigitChars[(n % 10) + 1]>>

\* Round v / 10 to the nearest integer, ties to even.
RoundTenth(v) ==
    LET q == v \div 10
        r == v % 10
    IN  IF r < 5 THEN q
        ELSE IF r > 5 THEN q + 1
        ELSE IF q % 2 = 0 THEN q ELSE q + 1

\* f'{x:.3f}' for x = v * 1e-4.
Fmt3(v) ==
    LET a == IF v < 0 THEN -v ELSE v
        t == RoundTenth(a)
        f == t % 1000
    IN  (IF v < 0 THEN <<"-">> ELSE <<>>)
        \o Str(t \div 1000) \o <<".">>
        \o <<DigitChars[(f \div 100) + 1], DigitChars[((f \div 10) % 10) + 1],
             DigitChars[(f % 10) + 1]>>

\* sep.join(fields)
RECURSIVE Join(_, _)
Join(fields, sep) ==
    IF fields = <<>> THEN <<>>
    ELSE IF Len(fields) = 1 THEN fields[1]
    ELSE fields[1] \o sep \o Join(Tail(fields), sep)

\* s.split(ch) for a one-character separator.
Split(s, ch) ==
    LET seps == {i \in 1..Len(s) : s[i] = ch}
        n == Cardinality(seps)
        sepAt(k) == CHOOSE i \in seps : Cardinality({j \in seps : j < i}) = k - 1
        first(k) == IF k = 1 THEN 1 ELSE sepAt(k - 1) + 1
        last(k) == IF k = n + 1 THEN Len(s) ELSE sepAt(k) - 1
    IN  [k \in 1..(n + 1) |-> SubSeq(s, first(k), last(k))]

(* ------------------- Molecule (openforcefield.topology) ---------------- *)

\* Topology._networkx_to_hill_formula(molecule.to_networkx())
HillFormula(g) == IF g = "A" THEN <<"C", "2", "H", "6">> ELSE <<"C", "H", "4">>

\* Molecule.__eq__: structural equality, independent of name and conformers.
MolEq(a, b) == a.graph = b.graph

\* Molecule.add_conformer on object id: a _conformers of None becomes a list.
AddConformer(h, id, c) == [h EXCEPT ![id].conformers = Append(@, c)]

\* mol._conformers = None (None and the empty list are both <<>>).
ResetConformers(h, id) == [h EXCEPT ![id].conformers = <<>>]

\* for conformer in molecule.conformers: molecules[-1].add_conformer(conformer)
RECURSIVE AddConformers(_, _, _)
AddConformers(h, id, cs) ==
    IF cs = <<>> THEN h
    ELSE AddConformers(AddConformer(h, id, Head(cs)), id, Tail(cs))

\* Id of the temporary copy made for the molecule being processed.
CopyId == 0

\* mol_copy = Molecule(molecule): a new object with the same contents.
CopyMolecule(h, id) ==
    [heap |-> (CopyId :> h[id]) @@ h, ref |-> CopyId]

(* -------------------------- OpenMM / RDKit ----------------------------- *)

\* simulation.minimizeEnergy(): positions move to the local minimum.
Minimized(pos) == <<"min", pos[2]>>

\* getState(getEnergy=True).getPotentialEnergy() at the given positions.
PotentialEnergy(pos) ==
    IF pos[1] = "orig" THEN 601134 + (pos[2] - 1) * 5872272
    ELSE IF pos[1] = "min" THEN 0 - (12125 + 1000 * pos[2])
    ELSE 0

\* RMS of geometry b against geometry a after alignment.
Rms(a, b) == IF a = b THEN 0 ELSE 7285 + 1000 * b[2]

\* rdMolAlign.AlignMolConformers(rdmol, RMSlist=rmslist): every conformer
\* after the first is aligned to the first.
RMSlist(confs) ==
    [j \in 1..(IF Len(confs) = 0 THEN 0 ELSE Len(confs) - 1)
        |-> Rms(confs[1], confs[j + 1])]

(* ------------------------------ cell 2 --------------------------------- *)

\* Variant: an equal record is skipped without taking over its conformers.
CollateRecordDrop(h, mols, id) ==
    LET last == mols[Len(mols)]
    IN  IF MolEq(h[id], h[last])
        THEN [heap |-> h, molecules |-> mols]
        ELSE [heap |-> h, molecules |-> Append(mols, id)]

\* Variant: a record is merged into the first equal record anywhere in the
\* output, not only into the last one.
CollateRecordGlobal(h, mols, id) ==
    LET same == {k \in 1..Len(mols) : MolEq(h[id], h[mols[k]])}
    IN  IF same # {}
        THEN LET k == CHOOSE k \in same : \A j \in same : k <= j
             IN  [heap |-> AddConformers(h, mols[k], h[id].conformers),
                  molecules |-> mols]
        ELSE [heap |-> h, molecules |-> Append(mols, id)]

\* Body of the collation loop for one loaded molecule.
CollateRecord(h, mols, id) ==
    LET last == mols[Len(mols)]
    IN  IF MolEq(h[id], h[last])
        THEN [heap |-> AddConformers(h, last, h[id].conformers),
              molecules |-> mols]
        ELSE [heap |-> h, molecules |-> Append(mols, id)]

\* sum([mol.n_conformers for mol in molecules])
RECURSIVE SumConformers(_, _)
SumConformers(h, mols) ==
    IF mols = <<>> THEN 0
    ELSE Len(h[Head(mols)].conformers) + SumConformers(h, Tail(mols))

(* ------------------------------ cell 4 --------------------------------- *)

Header ==
    << <<"C", "o", "n", "f", "o", "r", "m", "e", "r">>,
       <<"I", "n", "i", "t", "i", "a", "l", " ", "P", "E", " ", "(", "k", "c",
         "a", "l", "/", "m", "o", "l", ")">>,
       <<"M", "i", "n", "i", "m", "i", "z", "e", "d", " ", "P", "E", " ", "(",
         "k", "c", "a", "l", "/", "m", "o", "l", ")">>,
       <<"R", "M", "S", " ", "b", "e", "t", "w", "e", "e", "n", " ", "i", "n",
         "i", "t", "i", "a", "l", " ", "a", "n", "d", " ", "m", "i", "n", "i",
         "m", "i", "z", "e", "d", " ", "c", "o", "n", "f", "o", "r", "m", "e",
         "r", " ", "(", "A", "n", "g", "s", "t", "r", "o", "m", ")">> >>

\* Variant: the name is never defaulted.
DefaultNameSkip(h, id) == h

\* if molecule.name == '': molecule.name = hill formula
DefaultName(h, id) ==
    IF h[id].name = <<>>
    THEN [h EXCEPT ![id].name = HillFormula(h[id].graph)]
    ELSE h

\* f'{molecule.name}_conf{conformer_index+1}_minimized.sdf'
StructurePath(name, ci) ==
    name \o <<"_", "c", "o", "n", "f">> \o Str(ci + 1)
         \o <<"_", "m", "i", "n", "i", "m", "i", "z", "e", "d", ".", "s", "d", "f">>

\* f'{molecule.name}.csv'
CsvPath(name) == name \o <<".", "c", "s", "v">>

\* Variant: the row carries the 0-based conformer_index.
EnergyRowZeroBased(ci, orig, min, rms) == <<Str(ci), Fmt3(orig), Fmt3(min), Fmt3(rms)>>

\* The row appended to output for one conformer.
EnergyRow(ci, orig, min, rms) == <<Str(ci + 1), Fmt3(orig), Fmt3(min), Fmt3(rms)>>

\* for line in output: of.write(','.join(line)+'\n')
RECURSIVE CsvText(_)
CsvText(lines) ==
    IF lines = <<>> THEN <<>>
    ELSE Join(Head(lines), <<",">>) \o <<"\n">> \o CsvText(Tail(lines))

\* mol_copy.to_file(path, file_format='sdf'): the conformers of the object.
SdfText(h, id) == [format |-> "sdf", name |-> h[id].name,
                   graph |-> h[id].graph, conformers |-> h[id].conformers]

\* Writing a file replaces whatever the path held.
WriteFile(fs, path, content) == (path :> content) @@ fs

\* One call on the simulation handle, as a test double would record it.
Call(op, pos) == [op |-> op, mol |-> mi, conf |-> conformer_index + 1, pos |-> pos]

(* ------------------------------ Init ----------------------------------- *)

Init ==
    /\ \E n \in 0..MaxRecords :
         \E recs \in [1..n -> [graph : Graphs, name : DeclaredNames]] :
            /\ loaded_molecules = [i \in 1..n |-> i]
            /\ heap = [i \in 1..n |->
                         [name |-> recs[i].name, graph |-> recs[i].graph,
                          conformers |-> <<OrigGeom(i)>>]]
    /\ molecules = <<>>
    /\ idx = 0
    /\ n_molecules = 0
    /\ n_conformers = 0
    /\ pc = "start"
    /\ err = ""
    /\ mi = 0
    /\ mol_copy = CopyId
    /\ simulation = [positions |-> NoGeom]
    /\ conf_iter = <<>>
    /\ conformer_index = 0
    /\ conformer = NoGeom
    /\ orig_potential = 0
    /\ min_potential = 0
    /\ min_coords = NoGeom
    /\ minimization_rms = 0
    /\ output = <<>>
    /\ files = <<>>
    /\ writes = <<>>
    /\ calls = <<>>

reportVars == <<mi, mol_copy, simulation, conf_iter, conformer_index,
                conformer, orig_potential, min_potential, min_coords,
                minimization_rms, output, files, writes, calls>>

\* molecules = [loaded_molecules[0]]
CollateFirst ==
    /\ pc = "start"
    /\ IF loaded_molecules = <<>>
       THEN /\ pc' = "failed"
            /\ err' = "IndexError"
            /\ UNCHANGED <<molecules, idx>>
       ELSE /\ molecules' = <<loaded_molecules[1]>>
            /\ idx' = 2
            /\ pc' = "collate"
            /\ err' = err
    /\ UNCHANGED <<loaded_molecules, heap, n_molecules, n_conformers>>
    /\ UNCHANGED reportVars

\* for molecule in loaded_molecules[1:]: merge or append
CollateNext ==
    /\ pc = "collate"
    /\ idx <= Len(loaded_molecules)
    /\ LET r == CollateRecord(heap, molecules, loaded_molecules[idx])
       IN  /\ heap' = r.heap
           /\ molecules' = r.molecules
    /\ idx' = idx + 1
    /\ UNCHANGED <<loaded_molecules, n_molecules, n_conformers, pc, err>>
    /\ UNCHANGED reportVars

\* n_molecules, n_conformers and the summary line
Summary ==
    /\ pc = "collate"
    /\ idx > Len(loaded_molecules)
    /\ n_molecules' = Len(molecules)
    /\ n_conformers' = SumConformers(heap, molecules)
    /\ pc' = "mol_loop"
    /\ UNCHANGED <<loaded_molecules, heap, molecules, idx, err>>
    /\ UNCHANGED reportVars

collateVars == <<loaded_molecules, molecules, idx, n_molecules, n_conformers>>

\* The molecule object of the current iteration of the molecule loop.
Molecule == molecules[mi]

\* for molecule in molecules:
NextMolecule ==
    /\ pc = "mol_loop"
    /\ IF mi < Len(molecules)
       THEN /\ mi' = mi + 1
            /\ pc' = "name"
       ELSE /\ mi' = mi
            /\ pc' = "done"
    /\ UNCHANGED <<heap, err, mol_copy, simulation, conf_iter, conformer_index,
                   conformer, orig_potential, min_potential, min_coords,
                   minimization_rms, output, files, writes, calls>>
    /\ UNCHANGED collateVars

\* molecule.name defaults to the hill formula
NameDefault ==
    /\ pc = "name"
    /\ heap' = DefaultName(heap, Molecule)
    /\ pc' = "setup"
    /\ UNCHANGED <<err, mi, mol_copy, simulation, conf_iter, conformer_index,
                   conformer, orig_potential, min_potential, min_coords,
                   minimization_rms, output, files, writes, calls>>
    /\ UNCHANGED collateVars

\* mol_copy, topology, system, Simulation, report header
Setup ==
    /\ pc = "setup"
    /\ LET r == CopyMolecule(heap, Molecule)
       IN  /\ heap' = r.heap
           /\ mol_copy' = r.ref
    /\ simulation' = [positions |-> NoGeom]
    /\ output' = <<Header>>
    /\ conf_iter' = heap[Molecule].conformers
    /\ conformer_index' = 0
    /\ pc' = "conf_loop"
    /\ UNCHANGED <<err, mi, conformer, orig_potential, min_potential,
                   min_coords, minimization_rms, files, writes, calls>>
    /\ UNCHANGED collateVars

\* for conformer_index, conformer in enumerate(molecule.conformers):
NextConformer ==
    /\ pc = "conf_loop"
    /\ IF conformer_index < Len(conf_iter)
       THEN /\ conformer' = conf_iter[conformer_index + 1]
            /\ pc' = "set_positions"
       ELSE /\ conformer' = conformer
            /\ pc' = "csv"
    /\ UNCHANGED <<heap, err, mi, mol_copy, simulation, conf_iter,
                   conformer_index, orig_potential, min_potential, min_coords,
                   minimization_rms, output, files, writes, calls>>
    /\ UNCHANGED collateVars

\* Variant: coordinates are loaded for the first conformer only.
SetPositionsFirstOnly ==
    /\ pc = "set_positions"
    /\ simulation' = IF conformer_index = 0
                     THEN [simulation EXCEPT !.positions = conformer]
                     ELSE simulation
    /\ calls' = Append(calls, Call("setPositions", conformer))
    /\ pc' = "orig_potential"
    /\ UNCHANGED <<heap, err, mi, mol_copy, conf_iter, conformer_index,
                   conformer, orig_potential, min_potential, min_coords,
                   minimization_rms, output, files, writes>>
    /\ UNCHANGED collateVars

\* simulation.context.setPositions(conformer)
SetPositions ==
    /\ pc = "set_positions"
    /\ simulation' = [simulation EXCEPT !.positions = conformer]
    /\ calls' = Append(calls, Call("setPositions", conformer))
    /\ pc' = "orig_potential"
    /\ UNCHANGED <<heap, err, mi, mol_copy, conf_iter, conformer_index,
                   conformer, orig_potential, min_potential, min_coords,
                   minimization_rms, output, files, writes>>
    /\ UNCHANGED collateVars

\* orig_potential = ...getState(getEnergy=True).getPotentialEnergy()
GetOrigPotential ==
    /\ pc = "orig_potential"
    /\ orig_potential' = PotentialEnergy(simulation.positions)
    /\ calls' = Append(calls, Call("getState(E)", simulation.positions))
    /\ pc' = "minimize"
    /\ UNCHANGED <<heap, err, mi, mol_copy, simulation, conf_iter,
                   conformer_index, conformer, min_potential, min_coords,
                   minimization_rms, output, files, writes>>
    /\ UNCHANGED collateVars

\* simulation.minimizeEnergy()
MinimizeEnergy ==
    /\ pc = "minimize"
    /\ simulation' = [simulation EXCEPT !.positions = Minimized(@)]
    /\ calls' = Append(calls, Call("minimizeEnergy", simulation.positions))
    /\ pc' = "min_state"
    /\ UNCHANGED <<heap, err, mi, mol_copy, conf_iter, conformer_index,
                   conformer, orig_potential, min_potential, min_coords,
                   minimization_rms, output, files, writes>>
    /\ UNCHANGED collateVars

\* min_state, min_potential, min_coords
GetMinState ==
    /\ pc = "min_state"
    /\ min_potential' = PotentialEnergy(simulation.positions)
    /\ min_coords' = simulation.positions
    /\ calls' = Append(calls, Call("getState(E,P)", simulation.positions))
    /\ pc' = "pair"
    /\ UNCHANGED <<heap, err, mi, mol_copy, simulation, conf_iter,
                   conformer_index, conformer, orig_potential,
                   minimization_rms, output, files, writes>>
    /\ UNCHANGED collateVars

\* Variant: the pair is built on the molecule itself, not on the copy.
BuildPairOnMolecule ==
    /\ pc = "pair"
    /\ heap' = AddConformer(AddConformer(ResetConformers(heap, Molecule),
                                         Molecule, conformer),
                            Molecule, min_coords)
    /\ pc' = "align"
    /\ UNCHANGED <<err, mi, mol_copy, simulation, conf_iter, conformer_index,
                   conformer, orig_potential, min_potential, min_coords,
                   minimization_rms, output, files, writes, calls>>
    /\ UNCHANGED collateVars

\* Variant: the copy is not emptied before the pair is added.
BuildPairNoReset ==
    /\ pc = "pair"
    /\ heap' = AddConformer(AddConformer(heap, mol_copy, conformer),
                            mol_copy, min_coords)
    /\ pc' = "align"
    /\ UNCHANGED <<err, mi, mol_copy, simulation, conf_iter, conformer_index,
                   conformer, orig_potential, min_potential, min_coords,
                   minimization_rms, output, files, writes, calls>>
    /\ UNCHANGED collateVars

\* mol_copy holds the initial and the minimized conformer
BuildPair ==
    /\ pc = "pair"
    /\ heap' = AddConformer(AddConformer(ResetConformers(heap, mol_copy),
                                         mol_copy, conformer),
                            mol_copy, min_coords)
    /\ pc' = "align"
    /\ UNCHANGED <<err, mi, mol_copy, simulation, conf_iter, conformer_index,
                   conformer, orig_potential, min_potential, min_coords,
                   minimization_rms, output, files, writes, calls>>
    /\ UNCHANGED collateVars

\* rdmol = mol_copy.to_rdkit(); AlignMolConformers; minimization_rms = rmslist[0]
Align ==
    /\ pc = "align"
    /\ LET rmslist == RMSlist(heap[mol_copy].conformers)
       IN  IF Len(rmslist) = 0
           THEN /\ pc' = "failed"
                /\ err' = "IndexError"
                /\ minimization_rms' = minimization_rms
           ELSE /\ minimization_rms' = rmslist[1]
                /\ pc' = "save"
                /\ err' = err
    /\ UNCHANGED <<heap, mi, mol_copy, simulation, conf_iter, conformer_index,
                   conformer, orig_potential, min_potential, min_coords,
                   output, files, writes, calls>>
    /\ UNCHANGED collateVars

\* mol_copy holds the minimized conformer only and is written to file
SaveMinimized ==
    /\ pc = "save"
    /\ LET h == AddConformer(ResetConformers(heap, mol_copy), mol_copy, min_coords)
           path == StructurePath(h[Molecule].name, conformer_index)
       IN  /\ heap' = h
           /\ files' = WriteFile(files, path, SdfText(h, mol_copy))
           /\ writes' = Append(writes, [path |-> path, mol |-> mi, kind |-> "sdf",
                                        conf |-> conformer_index + 1])
    /\ pc' = "append"
    /\ UNCHANGED <<err, mi, mol_copy, simulation, conf_iter, conformer_index,
                   conformer, orig_potential, min_potential, min_coords,
                   minimization_rms, output, calls>>
    /\ UNCHANGED collateVars

\* print the progress line and output.append([...])
AppendRow ==
    /\ pc = "append"
    /\ output' = Append(output, EnergyRow(conformer_index, orig_potential,
                                          min_potential, minimization_rms))
    /\ conformer_index' = conformer_index + 1
    /\ pc' = "conf_loop"
    /\ UNCHANGED <<heap, err, mi, mol_copy, simulation, conf_iter, conformer,
                   orig_potential, min_potential, min_coords,
                   minimization_rms, files, writes, calls>>
    /\ UNCHANGED collateVars

\* with open(f'{molecule.name}.csv', 'w') as of: ...
WriteCSV ==
    /\ pc = "csv"
    /\ LET path == CsvPath(heap[Molecule].name)
       IN  /\ files' = WriteFile(files, path, CsvText(output))
           /\ writes' = Append(writes, [path |-> path, mol |-> mi, kind |-> "csv",
                                        conf |-> 0])
    /\ pc' = "cleanup"
    /\ UNCHANGED <<heap, err, mi, mol_copy, simulation, conf_iter,
                   conformer_index, conformer, orig_potential, min_potential,
                   min_coords, minimization_rms, output, calls>>
    /\ UNCHANGED collateVars

\* del simulation, integrator
CleanUp ==
    /\ pc = "cleanup"
    /\ simulation' = [positions |-> NoGeom]
    /\ pc' = "mol_loop"
    /\ UNCHANGED <<heap, err, mi, mol_copy, conf_iter, conformer_index,
                   conformer, orig_potential, min_potential, min_coords,
                   minimization_rms, output, files, writes, calls>>
    /\ UNCHANGED collateVars

\* Steps of cell 4 that call an external collaborator that can raise.
FailableSteps == {"setup", "set_positions", "orig_potential", "minimize",
                  "min_state", "align", "save", "csv"}

\* Variant: the exception is caught and the loop goes on with the next
\* conformer (or with the next molecule).
RaiseSwallowed ==
    /\ pc \in FailableSteps
    /\ err' = pc
    /\ pc' = IF pc \in {"setup", "csv"} THEN "cleanup" ELSE "conf_loop"
    /\ conformer_index' = IF pc \in {"setup", "csv"} THEN conformer_index
                          ELSE conformer_index + 1
    /\ UNCHANGED <<heap, mi, mol_copy, simulation, conf_iter,
                   conformer, orig_potential, min_potential, min_coords,
                   minimization_rms, output, files, writes, calls>>
    /\ UNCHANGED collateVars

\* An external call raises; nothing in cell 4 catches the exception.
Raise ==
    /\ pc \in FailableSteps
    /\ err' = pc
    /\ pc' = "failed"
    /\ UNCHANGED <<heap, mi, mol_copy, simulation, conf_iter, conformer_index,
                   conformer, orig_potential, min_potential, min_coords,
                   minimization_rms, output, files, writes, calls>>
    /\ UNCHANGED collateVars

Next ==
    \/ CollateFirst \/ CollateNext \/ Summary
    \/ NextMolecule \/ NameDefault \/ Setup \/ NextConformer
    \/ SetPositions \/ GetOrigPotential \/ MinimizeEnergy \/ GetMinState
    \/ BuildPair \/ Align \/ SaveMinimized \/ AppendRow
    \/ WriteCSV \/ CleanUp \/ Raise

Spec == Init /\ [][Next]_vars

(* ===================== properties of the collator ====================== *)

\* Graphs and conformers of the SDF records, in file order.  The graph of
\* an object never changes, and record i is loaded as object i.
InputGraphs == [i \in 1..Len(loaded_molecules) |-> heap[i].graph]
InputConformers == [i \in 1..Len(loaded_molecules) |-> OrigGeom(i)]

OutputGraphs == [k \in 1..Len(molecules) |-> heap[molecules[k]].graph]
OutputConformers == [k \in 1..Len(molecules) |-> heap[molecules[k]].conformers]

RECURSIVE Flatten(_)
Flatten(ss) == IF ss = <<>> THEN <<>> ELSE Head(ss) \o Flatten(Tail(ss))

\* The distinct elements of s in order of first appearance.
FirstAppearances(s) ==
    LET firsts == {i \in 1..Len(s) : \A j \in 1..(i - 1) : s[j] # s[i]}
        F[i \in 0..Len(s)] ==
            IF i = 0 THEN <<>>
            ELSE IF i \in firsts THEN Append(F[i - 1], s[i]) ELSE F[i - 1]
    IN  F[Len(s)]

\* Cell 2 has just finished.
Collated == pc = "mol_loop" /\ mi = 0

\* C1: for a non-empty input of single-conformer records, the conformer
\* total over the output equals the number of input records, the output
\* conformer lists concatenated are the input conformers in input order, and
\* distinct molecules first appear in the output in input order.
C1_ConformersConserved ==
    (Collated /\ loaded_molecules # <<>>) =>
        /\ n_conformers = Len(loaded_molecules)
        /\ Len(Flatten(OutputConformers)) = Len(loaded_molecules)
        /\ Flatten(OutputConformers) = InputConformers
        /\ FirstAppearances(OutputGraphs) = FirstAppearances(InputGraphs)

C1_Witness ==
    /\ Collated
    /\ Len(loaded_molecules) = 3
    /\ n_molecules = 2
    /\ Len(heap[molecules[1]].conformers) = 2

\* Input positions that start a run of consecutive structurally equal records.
RunStarts == {i \in 1..Len(InputGraphs) : i = 1 \/ InputGraphs[i] # InputGraphs[i - 1]}

\* The k-th maximal run of equal records, as the conformers it holds.
Run(k) ==
    LET members == {i \in 1..Len(InputGraphs) :
                       Cardinality({j \in RunStarts : j <= i}) = k}
        first == CHOOSE i \in members : \A j \in members : i <= j
        last == CHOOSE i \in members : \A j \in members : j <= i
    IN  SubSeq(InputConformers, first, last)

C3_EmptyInputNoError ==
    (loaded_molecules = <<>> /\ pc # "start") => (err = "" /\ molecules = <<>>)

(* ================== properties of the report generator ================= *)

\* The write events of the molecule being processed, by kind.
WritesOf(m, kind) == {i \in 1..Len(writes) : writes[i].mol = m /\ writes[i].kind = kind}

\* The lines of a text that ends every line with a newline.
Lines(text) == LET parts == Split(text, "\n") IN SubSeq(parts, 1, Len(parts) - 1)

\* C4: a molecule with N >= 1 conformers and no failing call gets N rows
\* indexed 1..N in order, N structure files and one CSV file; the CSV has
\* N+1 lines, the header first, and every data row has 4 fields.
C4_ReportShape ==
    pc = "cleanup" =>
        LET N == Len(heap[Molecule].conformers)
            csv == Lines(files[CsvPath(heap[Molecule].name)])
        IN  /\ N >= 1
            /\ Len(output) = N + 1
            /\ output[1] = Header
            /\ \A k \in 1..N : output[k + 1][1] = Str(k)
            /\ Cardinality(WritesOf(mi, "sdf")) = N
            /\ Cardinality({writes[i].path : i \in WritesOf(mi, "sdf")}) = N
            /\ \A i \in WritesOf(mi, "sdf") : writes[i].path \in DOMAIN files
            /\ Cardinality(WritesOf(mi, "csv")) = 1
            /\ Len(csv) = N + 1
            /\ csv[1] = Join(Header, <<",">>)
            /\ Split(csv[1], ",") = Header
            /\ \A k \in 1..N :
                  /\ Len(Split(csv[k + 1], ",")) = 4
                  /\ Split(csv[k + 1], ",") = output[k + 1]

C4_Witness ==
    /\ pc = "cleanup"
    /\ Len(heap[Molecule].conformers) = 3
    /\ Len(Lines(files[CsvPath(heap[Molecule].name)])) = 4

Ops == <<"setPositions", "getState(E)", "minimizeEnergy", "getState(E,P)">>

\* C5: on the simulation handle the calls of conformer k come in the order
\* load coordinates, initial energy, minimize, minimized state; the initial
\* energy is read at conformer k's original coordinates; all calls of
\* conformer k precede those of conformer k+1.
C5_CallOrder ==
    \A i \in 1..Len(calls) :
        LET c == calls[i]
            orig == heap[molecules[c.mol]].conformers[c.conf]
        IN  /\ c.op = Ops[((i - 1) % 4) + 1]
            /\ c.op = "setPositions" => c.pos = orig
            /\ c.op = "getState(E)" => c.pos = orig /\ c.pos[1] = "orig"
            /\ c.op = "minimizeEnergy" => c.pos = orig
            /\ c.op = "getState(E,P)" => c.pos = Minimized(orig)
            /\ i > 1 =>
                 LET b == calls[i - 1]
                 IN  IF (i - 1) % 4 = 0
                     THEN \/ b.mol < c.mol
                          \/ b.mol = c.mol /\ c.conf = b.conf + 1
                     ELSE b.mol = c.mol /\ b.conf = c.conf

C5_Witness ==
    /\ Len(calls) >= 6
    /\ calls[4].mol = calls[6].mol
    /\ calls[4].pos[1] = "min"
    /\ calls[6].op = "getState(E)"
    /\ calls[6].conf = 2

\* C6: an empty declared name is replaced by the hill formula before any
\* output path of the molecule is built, every path of the molecule is
\* built from that one non-empty name, and a non-empty declared name is kept.
C6_PathNames ==
    \A i \in 1..Len(writes) :
        LET w == writes[i]
            nm == heap[molecules[w.mol]].name
        IN  /\ nm # <<>>
            /\ w.kind = "sdf" => w.path = StructurePath(nm, w.conf - 1)
            /\ w.kind = "csv" => w.path = CsvPath(nm)

C6_NameStep ==
    pc = "name" =>
        /\ WritesOf(mi, "sdf") = {} /\ WritesOf(mi, "csv") = {}
        /\ heap[Molecule].name # <<>> => heap'[Molecule].name = heap[Molecule].name
        /\ heap[Molecule].name = <<>> =>
               /\ heap'[Molecule].name = HillFormula(heap[Molecule].graph)
               /\ heap'[Molecule].name # <<>>

C6_Naming == []C6_PathNames /\ [][C6_NameStep]_vars

C6_Witness ==
    \E i \in 1..Len(writes) :
        /\ writes[i].kind = "csv"
        /\ heap[molecules[writes[i].mol]].name = HillFormula(heap[molecules[writes[i].mol]].graph)
        /\ Cardinality(WritesOf(writes[i].mol, "sdf")) = 2

\* Cell 4 is running or has ended.
ReportPhase == pc \notin {"start", "collate"}

\* C7 as stated: cell 4 leaves the name and the conformer list of every
\* collated record as the collator produced them.
C7_RecordsReadOnly ==
    [][ReportPhase => \A k \in 1..Len(molecules) :
                          heap'[molecules[k]] = heap[molecules[k]]]_vars

\* C7 as amended: cell 4 leaves the conformer list of every collated
\* record unchanged, and changes a record's name only from the empty name
\* to the hill formula.
C7_ConformersReadOnly ==
    [][ReportPhase => \A k \in 1..Len(molecules) :
          LET old == heap[molecules[k]]
              new == heap'[molecules[k]]
          IN  /\ new.conformers = old.conformers
              /\ new.graph = old.graph
              /\ \/ new.name = old.name
                 \/ old.name = <<>> /\ new.name = HillFormula(old.graph)]_vars

C7_Witness ==
    /\ pc = "done"
    /\ \E k \in 1..Len(molecules) :
          /\ Len(heap[molecules[k]].conformers) = 2
          /\ heap[molecules[k]].name = HillFormula(heap[molecules[k]].graph)
          /\ Cardinality(WritesOf(k, "sdf")) = 2

\* Errors raised by an external step while a conformer is processed.
ConformerErrors == {"set_positions", "orig_potential", "minimize", "min_state",
                    "align", "save"}

\* C8: a failing external step of conformer k ends the run: the error
\* reaches the top level, nothing runs afterwards (no retry, no later
\* conformer, no later molecule) and the molecule's CSV is not written.
C8_FailFast ==
    err \in ConformerErrors =>
        /\ pc = "failed"
        /\ ~ENABLED Next
        /\ WritesOf(mi, "csv") = {}
        /\ \A i \in 1..Len(writes) : writes[i].mol <= mi
        /\ \A i \in 1..Len(writes) :
              writes[i].mol = mi => writes[i].conf <= conformer_index
        /\ \A i \in 1..Len(calls) :
              \/ calls[i].mol < mi
              \/ calls[i].mol = mi /\ calls[i].conf <= conformer_index + 1
        /\ \A i, j \in 1..Len(calls) :
              (calls[i].mol = calls[j].mol /\ calls[i].conf = calls[j].conf
                 /\ calls[i].op = calls[j].op) => i = j

C8_Witness ==
    /\ err = "minimize"
    /\ pc = "failed"
    /\ mi = 1
    /\ conformer_index = 0
    /\ Len(molecules) = 2
    /\ Len(conf_iter) = 2

\* C9: no two output records write to the same path.
C9_DisjointPaths ==
    \A i, j \in 1..Len(writes) :
        writes[i].path = writes[j].path => writes[i].mol = writes[j].mol

\* C10: for every conformer k the working copy holds the two geometries
\* (original of k, minimized of k) when the alignment is called, and the
\* structure file of index k holds the minimized geometry of k only.
C10_NoGeometryLeak ==
    /\ pc = "align" =>
          heap[mol_copy].conformers =
              <<conf_iter[conformer_index + 1], Minimized(conf_iter[conformer_index + 1])>>
    /\ pc = "append" =>
          LET path == StructurePath(heap[Molecule].name, conformer_index)
          IN  /\ path \in DOMAIN files
              /\ files[path].conformers =
                     <<Minimized(heap[Molecule].conformers[conformer_index + 1])>>

C10_Witness ==
    /\ pc = "append"
    /\ conformer_index = 0
    /\ Len(conf_iter) = 3
    /\ files[StructurePath(heap[Molecule].name, 0)].conformers = <<Minimized(conf_iter[1])>>

====
